---- MODULE Spec2Model ----
(***************************************************************************)
(* NH3HistoricalData.ipynb as a state machine.  The state is the kernel's  *)
(* namespace (the globals the cells assign), one action per cell or widget *)
(* callback.  The kernel runs one cell at a time; the Rate Analysis cell   *)
(* is split at its while loop (pc), and no other cell runs while it is in  *)
(* the loop.                                                               *)
(*                                                                         *)
(* NH3 readings are held in tenths (4.0 -> 40, prominence 0.3 -> 3) and    *)
(* timestamps in seconds; quotients are exact rationals [num, den].        *)
(* A name that is not bound yet is <<>>, a bound name is <<value>>.        *)
(***************************************************************************)
EXTENDS Integers, Sequences, FiniteSets, TLC

VARIABLES
  filepicker_data,  \* filepicker.data: the list of uploaded files
  raw,              \* the parsed table
  timecol, nh3col,  \* the two Dropdown widgets (their .value)
  df,               \* the working table, columns Time and NH3
  cutoff_slider,    \* whether interact(set_cutoff, ...) has been created
  max_cutoff, min_cutoff,
  maxima, minima,   \* rows of df tagged 'max' / 'min', labelled by df position
  extrema,          \* the merged table
  i, imax,          \* the cleanup loop's counter and its fixed bound
  pc,               \* "idle", or "loop" while the Rate Analysis cell runs
  out,              \* how the last cell or callback ended: [exc, line]
  det_in,           \* history: what the last Detect peaks run read
  rate_hist         \* history: inputs and result of the last completed Rate Analysis run

vars == <<filepicker_data, raw, timecol, nh3col, df, cutoff_slider, max_cutoff,
          min_cutoff, maxima, minima, extrema, i, imax, pc, out, det_in, rate_hist>>

----------------------------------------------------------------------------
(* Bounds of the model *)

\* longest uploaded series over ValsDetect: any values, plateaus included
MaxDetectLen == 4
\* longest uploaded series over ValsRate: no two equal neighbours, many extrema
MaxLen == 8
\* seconds between two samples of an uploaded file
SamplePeriod == 1800

ValsDetect == {10, 20, 22, 23, 40}
ValsRate == {10, 30, 50}
ExampleSeries == <<10, 50, 10, 60, 10>>
Oranges == {40}
Greens == {25, 20}

SeqsUpTo(S, n) == UNION {[1..k -> S] : k \in 1..n}
ZigZag(s) == \A k \in 1..(Len(s) - 1) : s[k] # s[k + 1]
Files == SeqsUpTo(ValsDetect, MaxDetectLen)
           \cup {s \in SeqsUpTo(ValsRate, MaxLen) : ZigZag(s)}
           \cup {ExampleSeries}

----------------------------------------------------------------------------
(* Program constants *)

DefaultOrange == 40
DefaultGreen == 25
Prominence == 3

----------------------------------------------------------------------------
(* Helpers *)

None == <<>>
Some(v) == <<v>>
Bound(name) == name # <<>>
Val(name) == name[1]

At(x, k) == x[k + 1]   \* 0-based indexing of a sequence

Max2(a, b) == IF a >= b THEN a ELSE b

Abs(a) == IF a < 0 THEN -a ELSE a

RECURSIVE Gcd(_, _)
Gcd(a, b) == IF b = 0 THEN a ELSE Gcd(b, a % b)

\* n/d in lowest terms with a positive denominator (d = 0 is kept as it is)
Rat(n, d) ==
  IF d = 0 THEN [num |-> n, den |-> 0]
  ELSE LET g == Gcd(Abs(n), Abs(d))
           s == IF d < 0 THEN -1 ELSE 1
       IN [num |-> s * (n \div g), den |-> s * (d \div g)]

RatDiv(a, b) == Rat(a.num * b.den, a.den * b.num)

Outcome(exc, line) == [exc |-> exc, line |-> line]

----------------------------------------------------------------------------
(* pandas / scipy operations the cells call *)

\* pd.read_csv(...).dropna(): one row per sample, columns as in the header
read_csv(file) ==
  [k \in 1..Len(file) |-> [Timestamp |-> (k - 1) * SamplePeriod, NH3 |-> file[k]]]

Column(row, name) == IF name = "Timestamp" THEN row.Timestamp ELSE row.NH3

NH3Series(t) == [k \in 1..Len(t) |-> t[k].NH3]

Negate(x) == [k \in 1..Len(x) |-> -x[k]]

\* scipy _local_maxima_1d: the inner while that walks a plateau
RECURSIVE plateau_end(_, _, _)
plateau_end(x, k, i_ahead) ==
  IF i_ahead < Len(x) - 1 /\ At(x, i_ahead) = At(x, k)
  THEN plateau_end(x, k, i_ahead + 1)
  ELSE i_ahead

\* scipy _local_maxima_1d: the outer while, from sample k on
RECURSIVE local_maxima_from(_, _)
local_maxima_from(x, k) ==
  IF ~(k < Len(x) - 1) THEN <<>>
  ELSE IF At(x, k - 1) < At(x, k)
       THEN LET i_ahead == plateau_end(x, k, k + 1)
            IN IF At(x, i_ahead) < At(x, k)
               THEN <<(k + i_ahead - 1) \div 2>> \o local_maxima_from(x, i_ahead + 1)
               ELSE local_maxima_from(x, k + 1)
       ELSE local_maxima_from(x, k + 1)

local_maxima_1d(x) == local_maxima_from(x, 1)

\* scipy _peak_prominences: the walk to one side of the peak, lowest value seen
RECURSIVE base_min(_, _, _, _, _)
base_min(x, peak, k, step, lowest) ==
  IF 0 <= k /\ k <= Len(x) - 1 /\ At(x, k) <= At(x, peak)
  THEN base_min(x, peak, k + step, step, IF At(x, k) < lowest THEN At(x, k) ELSE lowest)
  ELSE lowest

peak_prominence(x, peak) ==
  At(x, peak) - Max2(base_min(x, peak, peak, -1, At(x, peak)),
                     base_min(x, peak, peak, 1, At(x, peak)))

HeightOk(h, height) == h >= height

ProminenceOk(p, prominence) == p >= prominence

\* scipy.signal.find_peaks(x, height=..., prominence=...): 0-based positions
find_peaks(x, height, prominence) ==
  LET peaks == local_maxima_1d(x)
      high == SelectSeq(peaks, LAMBDA p : HeightOk(At(x, p), height))
  IN SelectSeq(high, LAMBDA p : ProminenceOk(peak_prominence(x, p), prominence))

\* variant of MinimaPeaks: the height bound is passed without its sign flipped
MinimaPeaksUnnegated(t, min_c) == find_peaks(Negate(NH3Series(t)), min_c, Prominence)

MaximaPeaks(t, max_c) == find_peaks(NH3Series(t), max_c, Prominence)

MinimaPeaks(t, min_c) == find_peaks(Negate(NH3Series(t)), -min_c, Prominence)

\* df.iloc[peaks] followed by .loc[:, 'type'] = tag
Tagged(t, peaks, tag) ==
  [k \in 1..Len(peaks) |->
     [label |-> peaks[k], Time |-> At(t, peaks[k]).Time,
      NH3 |-> At(t, peaks[k]).NH3, type |-> tag]]

\* the ordered outer merge of two tables sorted by Time (rows keep their order)
RECURSIVE MergeRows(_, _)
MergeRows(a, b) ==
  IF a = <<>> THEN b
  ELSE IF b = <<>> THEN a
  ELSE IF Head(a).Time <= Head(b).Time
       THEN <<Head(a)>> \o MergeRows(Tail(a), b)
       ELSE <<Head(b)>> \o MergeRows(a, Tail(b))

\* variant of merge_ordered: the two tables are concatenated, not merged by Time
merge_concat(a, b) ==
  LET m == a \o b
  IN [k \in 1..Len(m) |-> [m[k] EXCEPT !.label = k - 1]]

\* pd.merge_ordered(maxima, minima): the result gets a fresh index 0..n-1
merge_ordered(a, b) ==
  LET m == MergeRows(a, b)
  IN [k \in 1..Len(m) |-> [m[k] EXCEPT !.label = k - 1]]

Labels(t) == {t[k].label : k \in 1..Len(t)}

HasLabel(t, lbl) == lbl \in Labels(t)

\* extrema[col][lbl]: the row an index label names
RowAt(t, lbl) == t[CHOOSE k \in 1..Len(t) : t[k].label = lbl]

\* extrema.drop(lbl, axis=0), for a label that is present: the other rows keep their labels
DropLabel(t, lbl) == SelectSeq(t, LAMBDA r : r.label # lbl)

\* variant of CleanupDrop: the later row of the equal pair is dropped
CleanupDropNext(t, k) == DropLabel(t, k + 1)

\* variant of CleanupDrop: the index is reset after the drop, so later rows shift down
CleanupDropReindexed(t, k) ==
  LET kept == DropLabel(t, k)
  IN [j \in 1..Len(kept) |-> [kept[j] EXCEPT !.label = j - 1]]

\* extrema = extrema.drop(i, axis=0) in the loop
CleanupDrop(t, k) == DropLabel(t, k)

\* variant of LoopCond: the loop stops one pair early
LoopCondShort(k, kmax) == k + 2 < kmax

\* while (i+1 < imax)
LoopCond(k, kmax) == k + 1 < kmax

\* variant of SameType: row a is compared with itself
SameTypeSelf(t, a, b) == RowAt(t, a).type = RowAt(t, a).type

\* extrema['type'][a] == extrema['type'][b], both labels present
SameType(t, a, b) == RowAt(t, a).type = RowAt(t, b).type

\* extrema['NH3'].diff() and extrema['Time'].diff(): positional predecessor
WithDiffs(t) ==
  [k \in 1..Len(t) |->
     [label |-> t[k].label, Time |-> t[k].Time, NH3 |-> t[k].NH3, type |-> t[k].type,
      Delta_NH3 |-> IF k = 1 THEN None ELSE Some(t[k].NH3 - t[k - 1].NH3),
      Delta_Time |-> IF k = 1 THEN None ELSE Some(t[k].Time - t[k - 1].Time)]]

\* variant of HourlyRate: the seconds are not converted to hours
HourlyRatePerSecond(delta_nh3, delta_time) ==
  RatDiv(Rat(delta_nh3, 1), Rat(delta_time, 1))

\* Delta_NH3 / (total_seconds(Delta_Time) / 3600)
HourlyRate(delta_nh3, delta_time) ==
  RatDiv(Rat(delta_nh3, 1), Rat(delta_time, 3600))

WithRates(t) ==
  [k \in 1..Len(t) |->
     [label |-> t[k].label, Time |-> t[k].Time, NH3 |-> t[k].NH3, type |-> t[k].type,
      Delta_NH3 |-> t[k].Delta_NH3, Delta_Time |-> t[k].Delta_Time,
      NH3_Hour |-> HourlyRate(Val(t[k].Delta_NH3), Val(t[k].Delta_Time))]]

----------------------------------------------------------------------------
(* State after the set-up cell and the Upload cell: nothing uploaded yet *)

Init ==
  /\ filepicker_data = <<>>
  /\ raw = None
  /\ timecol = None
  /\ nh3col = None
  /\ df = None
  /\ cutoff_slider = FALSE
  /\ max_cutoff = None
  /\ min_cutoff = None
  /\ maxima = None
  /\ minima = None
  /\ extrema = None
  /\ i = 0
  /\ imax = 0
  /\ pc = "idle"
  /\ out = Outcome("none", 0)
  /\ det_in = None
  /\ rate_hist = None

----------------------------------------------------------------------------
(* History: whether a cell is being run again on what its last run read *)

SameDetectInputs ==
  /\ Bound(det_in)
  /\ Val(det_in).df = Val(df)
  /\ Val(det_in).max_cutoff = Val(max_cutoff)
  /\ Val(det_in).min_cutoff = Val(min_cutoff)

SameRateInputs ==
  /\ Bound(rate_hist)
  /\ Val(rate_hist).maxima = Val(maxima)
  /\ Val(rate_hist).minima = Val(minima)

----------------------------------------------------------------------------
(* Actions *)

\* the user picks a file in the FileUpload widget (one file per session)
Upload ==
  /\ pc = "idle"
  /\ filepicker_data = <<>>
  /\ \E file \in Files : filepicker_data' = <<file>>
  /\ out' = Outcome("none", 0)
  /\ UNCHANGED <<raw, timecol, nh3col, df, cutoff_slider, max_cutoff, min_cutoff,
                 maxima, minima, extrema, i, imax, pc, det_in, rate_hist>>

\* cell "3. Parse data from file"
ParseCell ==
  /\ pc = "idle"
  /\ IF Len(filepicker_data) = 0
     THEN \* filepicker.data[0] raises IndexError, which the cell catches
          /\ out' = Outcome("IndexError caught", 126)
          /\ UNCHANGED <<raw, timecol, nh3col>>
     ELSE /\ raw' = Some(read_csv(filepicker_data[1]))
          /\ timecol' = Some("Timestamp")
          /\ nh3col' = Some("NH3")
          /\ out' = Outcome("none", 0)
  /\ UNCHANGED <<filepicker_data, df, cutoff_slider, max_cutoff, min_cutoff,
                 maxima, minima, extrema, i, imax, pc, det_in, rate_hist>>

\* variant of RenameCell: the NameError is not caught
RenameCellUncaught ==
  /\ pc = "idle"
  /\ IF ~Bound(raw) \/ ~Bound(timecol) \/ ~Bound(nh3col)
     THEN /\ out' = Outcome("NameError", 153)
          /\ UNCHANGED df
     ELSE /\ df' = Some([k \in 1..Len(Val(raw)) |->
                           [Time |-> Column(Val(raw)[k], Val(timecol)),
                            NH3 |-> Column(Val(raw)[k], Val(nh3col))]])
          /\ out' = Outcome("none", 0)
  /\ UNCHANGED <<filepicker_data, raw, timecol, nh3col, cutoff_slider, max_cutoff,
                 min_cutoff, maxima, minima, extrema, i, imax, pc, det_in, rate_hist>>

\* the cell that renames the selected columns to Time and NH3
RenameCell ==
  /\ pc = "idle"
  /\ IF ~Bound(raw) \/ ~Bound(timecol) \/ ~Bound(nh3col)
     THEN \* raw is not defined: NameError, which the cell catches
          /\ out' = Outcome("NameError caught", 153)
          /\ UNCHANGED df
     ELSE /\ df' = Some([k \in 1..Len(Val(raw)) |->
                           [Time |-> Column(Val(raw)[k], Val(timecol)),
                            NH3 |-> Column(Val(raw)[k], Val(nh3col))]])
          /\ out' = Outcome("none", 0)
  /\ UNCHANGED <<filepicker_data, raw, timecol, nh3col, cutoff_slider, max_cutoff,
                 min_cutoff, maxima, minima, extrema, i, imax, pc, det_in, rate_hist>>

\* set_cutoff(orange, green): the globals are assigned before df is plotted
set_cutoff(orange, green) ==
  /\ max_cutoff' = Some(orange)
  /\ min_cutoff' = Some(green)
  /\ out' = IF Bound(df) THEN Outcome("none", 0)
            ELSE Outcome("NameError", 181)
  /\ UNCHANGED <<filepicker_data, raw, timecol, nh3col, df, maxima, minima,
                 extrema, i, imax, pc, det_in, rate_hist>>

\* cell "4. Set threshold values": interact() calls set_cutoff with the slider defaults
CutoffCell ==
  /\ pc = "idle"
  /\ cutoff_slider' = TRUE
  /\ set_cutoff(DefaultOrange, DefaultGreen)

\* the user moves a slider
SliderMove ==
  /\ pc = "idle"
  /\ cutoff_slider
  /\ \E orange \in Oranges, green \in Greens : set_cutoff(orange, green)
  /\ UNCHANGED cutoff_slider

\* cell "5. Detect peaks"
DetectCell ==
  /\ pc = "idle"
  /\ IF ~Bound(df) \/ ~Bound(max_cutoff) \/ ~Bound(min_cutoff)
     THEN /\ out' = Outcome("NameError", 208)
          /\ UNCHANGED <<maxima, minima, det_in>>
     ELSE /\ maxima' = Some(Tagged(Val(df), MaximaPeaks(Val(df), Val(max_cutoff)), "max"))
          /\ minima' = Some(Tagged(Val(df), MinimaPeaks(Val(df), Val(min_cutoff)), "min"))
          /\ det_in' = Some([df |-> Val(df), max_cutoff |-> Val(max_cutoff),
                              min_cutoff |-> Val(min_cutoff),
                              again |-> SameDetectInputs])
          /\ out' = Outcome("none", 0)
  /\ UNCHANGED <<filepicker_data, raw, timecol, nh3col, df, cutoff_slider, max_cutoff,
                 min_cutoff, extrema, i, imax, pc, rate_hist>>

\* variant of RateStart: a table left by an earlier run is kept instead of merged anew
RateStartStale ==
  /\ pc = "idle"
  /\ IF ~Bound(maxima) \/ ~Bound(minima)
     THEN /\ out' = Outcome("NameError", 246)
          /\ UNCHANGED <<extrema, i, imax, pc>>
     ELSE /\ extrema' = IF Bound(extrema) THEN extrema
                        ELSE Some(merge_ordered(Val(maxima), Val(minima)))
          /\ i' = 0
          /\ imax' = Len(MergeRows(Val(maxima), Val(minima)))
          /\ pc' = "loop"
          /\ out' = Outcome("running", 252)
  /\ UNCHANGED <<filepicker_data, raw, timecol, nh3col, df, cutoff_slider, max_cutoff,
                 min_cutoff, maxima, minima, det_in, rate_hist>>

\* cell "6. Rate Analysis", up to the while loop
RateStart ==
  /\ pc = "idle"
  /\ IF ~Bound(maxima) \/ ~Bound(minima)
     THEN /\ out' = Outcome("NameError", 246)
          /\ UNCHANGED <<extrema, i, imax, pc>>
     ELSE /\ extrema' = Some(merge_ordered(Val(maxima), Val(minima)))
          /\ i' = 0
          /\ imax' = Len(MergeRows(Val(maxima), Val(minima)))
          /\ pc' = "loop"
          /\ out' = Outcome("running", 252)
  /\ UNCHANGED <<filepicker_data, raw, timecol, nh3col, df, cutoff_slider, max_cutoff,
                 min_cutoff, maxima, minima, det_in, rate_hist>>

\* one iteration of the cleanup loop
RateLoop ==
  /\ pc = "loop"
  /\ LoopCond(i, imax)
  /\ IF ~HasLabel(Val(extrema), i) \/ ~HasLabel(Val(extrema), i + 1)
     THEN \* extrema['type'][label] of a missing label raises KeyError
          /\ pc' = "idle"
          /\ out' = Outcome("KeyError", 253)
          /\ rate_hist' = Some([maxima |-> Val(maxima), minima |-> Val(minima),
                                extrema |-> extrema, out |-> out',
                                again |-> SameRateInputs])
          /\ UNCHANGED <<extrema, i>>
     ELSE /\ extrema' = IF SameType(Val(extrema), i, i + 1)
                        THEN Some(CleanupDrop(Val(extrema), i))
                        ELSE extrema
          /\ i' = i + 1
          /\ UNCHANGED <<pc, out, rate_hist>>
  /\ UNCHANGED <<filepicker_data, raw, timecol, nh3col, df, cutoff_slider, max_cutoff,
                 min_cutoff, maxima, minima, imax, det_in>>

\* the rest of the cell once the loop has ended
RateFinish ==
  /\ pc = "loop"
  /\ ~LoopCond(i, imax)
  /\ pc' = "idle"
  /\ LET diffed == WithDiffs(Val(extrema))
     IN IF ~HasLabel(diffed, 0)
        THEN \* extrema.drop(0, axis=0) of a missing label raises KeyError
             /\ extrema' = Some(diffed)
             /\ out' = Outcome("KeyError", 260)
        ELSE /\ extrema' = Some(WithRates(DropLabel(diffed, 0)))
             /\ out' = Outcome("none", 0)
  /\ rate_hist' = Some([maxima |-> Val(maxima), minima |-> Val(minima),
                        extrema |-> extrema', out |-> out',
                        again |-> SameRateInputs])
  /\ UNCHANGED <<filepicker_data, raw, timecol, nh3col, df, cutoff_slider, max_cutoff,
                 min_cutoff, maxima, minima, i, imax, det_in>>

Next ==
  \/ Upload
  \/ ParseCell
  \/ RenameCell
  \/ CutoffCell
  \/ SliderMove
  \/ DetectCell
  \/ RateStart
  \/ RateLoop
  \/ RateFinish

Spec == Init /\ [][Next]_vars

----------------------------------------------------------------------------
(* Properties *)

\* the cleanup loop has ended and line 258 has not run yet
AfterCleanup == pc = "loop" /\ ~LoopCond(i, imax)

\* the merged table the running Rate Analysis cell started from
Merged == merge_ordered(Val(maxima), Val(minima))

\* the first / the last row of every maximal run of equal type tags
KeepFirstOfRuns(m) ==
  SelectSeq(m, LAMBDA r : r.label = 0 \/ m[r.label].type # r.type)

KeepLastOfRuns(m) ==
  SelectSeq(m, LAMBDA r : r.label = Len(m) - 1 \/ m[r.label + 2].type # r.type)

\* C1: after the cleanup loop no two adjacent rows of extrema carry the same
\* type tag.
C1_Alternates ==
  AfterCleanup =>
    \A k \in 1..(Len(Val(extrema)) - 1) :
      Val(extrema)[k].type # Val(extrema)[k + 1].type

C1_Witness ==
  /\ AfterCleanup
  /\ Len(Val(extrema)) >= 2
  /\ imax >= Len(Val(extrema)) + 2

\* C2 as stated: after the cleanup loop the table holds the earliest row of
\* every maximal run of equal tags.
C2_KeepsFirst == AfterCleanup => Val(extrema) = KeepFirstOfRuns(Merged)

\* C2 amended: after the cleanup loop the table holds the latest row of every
\* maximal run of equal tags; the earlier rows of the run are the ones deleted.
C2_KeepsLast == AfterCleanup => Val(extrema) = KeepLastOfRuns(Merged)

C2_Witness ==
  /\ AfterCleanup
  /\ \E k \in 1..(Len(Merged) - 2) :
       /\ Merged[k].type = Merged[k + 1].type
       /\ Merged[k + 1].type = Merged[k + 2].type
       /\ ~HasLabel(Val(extrema), k - 1)
       /\ ~HasLabel(Val(extrema), k)
       /\ (k + 2 = Len(Merged) \/ Merged[k + 3].type # Merged[k + 2].type)
       /\ HasLabel(Val(extrema), k + 1)

\* C3 as stated: whenever the merged table had at least one row, the Rate
\* Analysis cell completes, the first-row removal included, and every row of
\* the table it leaves has a defined Delta_NH3 and Delta_Time.
C3_FirstRowRemoved ==
  (/\ pc = "idle"
   /\ Bound(rate_hist)
   /\ Len(Val(rate_hist).maxima) + Len(Val(rate_hist).minima) >= 1)
  => /\ Val(rate_hist).out.exc = "none"
     /\ \A k \in 1..Len(Val(Val(rate_hist).extrema)) :
          /\ Bound(Val(Val(rate_hist).extrema)[k].Delta_NH3)
          /\ Bound(Val(Val(rate_hist).extrema)[k].Delta_Time)

\* the step that ends a completing Rate Analysis run: extrema is the filtered
\* table before it and the final table after it
C4_RowDeltas ==
  (pc = "loop" /\ pc' = "idle" /\ out'.exc = "none") =>
    LET f == Val(extrema)
        t == Val(extrema')
    IN /\ Len(t) = Len(f) - 1
       /\ \A k \in 1..Len(t) :
            /\ t[k].label = f[k + 1].label
            /\ t[k].NH3 = f[k + 1].NH3
            /\ t[k].Time = f[k + 1].Time
            /\ t[k].Delta_NH3 = <<f[k + 1].NH3 - f[k].NH3>>
            /\ t[k].Delta_Time = <<f[k + 1].Time - f[k].Time>>
            /\ t[k].NH3_Hour.den > 0
            /\ t[k].NH3_Hour.num * (f[k + 1].Time - f[k].Time)
                 = (f[k + 1].NH3 - f[k].NH3) * 3600 * t[k].NH3_Hour.den

\* C4: when the Rate Analysis cell completes, its table is the filtered table
\* without its first row; each row's Delta_NH3 and Delta_Time are the
\* differences against the row before it in the filtered table, and NH3/Hour
\* times (Delta_Time seconds / 3600) equals Delta_NH3.
C4_Rates == [][C4_RowDeltas]_vars

C4_Witness ==
  /\ pc = "idle"
  /\ out.exc = "none"
  /\ Bound(rate_hist)
  /\ Val(rate_hist).extrema = extrema
  /\ Val(rate_hist).out.exc = "none"
  /\ Len(Val(extrema)) >= 2
  /\ imax >= Len(Val(extrema)) + 2
  /\ \E k \in 1..Len(Val(extrema)) : Val(extrema)[k].NH3_Hour.den > 1

\* p is the middle of a flat stretch of x with a strictly lower (higher)
\* sample on either side; positions are 0-based
IsPeakAt(x, p) ==
  \E l \in 1..p, r \in p..(Len(x) - 2) :
    /\ \A j \in l..r : At(x, j) = At(x, p)
    /\ At(x, l - 1) < At(x, p)
    /\ At(x, r + 1) < At(x, p)
    /\ p = (l + r) \div 2

IsValleyAt(x, p) ==
  \E l \in 1..p, r \in p..(Len(x) - 2) :
    /\ \A j \in l..r : At(x, j) = At(x, p)
    /\ At(x, l - 1) > At(x, p)
    /\ At(x, r + 1) > At(x, p)
    /\ p = (l + r) \div 2

SetMin(S) == CHOOSE m \in S : \A y \in S : m <= y

\* the lowest sample between p and the nearest higher sample on each side
LeftBase(x, p) ==
  LET a == CHOOSE a \in 0..p :
             /\ \A j \in a..p : At(x, j) <= At(x, p)
             /\ (a = 0 \/ At(x, a - 1) > At(x, p))
  IN SetMin({At(x, j) : j \in a..p})

RightBase(x, p) ==
  LET b == CHOOSE b \in p..(Len(x) - 1) :
             /\ \A j \in p..b : At(x, j) <= At(x, p)
             /\ (b = Len(x) - 1 \/ At(x, b + 1) > At(x, p))
  IN SetMin({At(x, j) : j \in p..b})

TopographicProminence(x, p) == At(x, p) - Max2(LeftBase(x, p), RightBase(x, p))

Summary(t) == [k \in 1..Len(t) |-> <<t[k].type, t[k].NH3, t[k].Time>>]

ExampleDetected ==
  /\ Bound(det_in)
  /\ [k \in 1..Len(Val(det_in).df) |-> Val(det_in).df[k].NH3] = ExampleSeries
  /\ Val(det_in).max_cutoff = 40
  /\ Val(det_in).min_cutoff = 20

\* C6: for the series 1, 5, 1, 6, 1 with thresholds 4 and 2 the maxima are
\* the samples 5 and 6, the only minimum is the 1 between them, and the table
\* after the cleanup loop is max(5), min(1), max(6).
C6_Example ==
  /\ ExampleDetected =>
       /\ Summary(Val(maxima)) = << <<"max", 50, SamplePeriod>>,
                                    <<"max", 60, 3 * SamplePeriod>> >>
       /\ Summary(Val(minima)) = << <<"min", 10, 2 * SamplePeriod>> >>
  /\ (ExampleDetected /\ AfterCleanup) =>
       Summary(Val(extrema)) = << <<"max", 50, SamplePeriod>>,
                                  <<"min", 10, 2 * SamplePeriod>>,
                                  <<"max", 60, 3 * SamplePeriod>> >>

C6_Witness == ExampleDetected /\ AfterCleanup

\* a Detect peaks run that read what the run before it read
DetectRepeat ==
  (/\ Bound(det_in)
   /\ Bound(det_in')
   /\ Val(det_in').df = Val(det_in).df
   /\ Val(det_in').max_cutoff = Val(det_in).max_cutoff
   /\ Val(det_in').min_cutoff = Val(det_in).min_cutoff)
  => (maxima' = maxima /\ minima' = minima)

\* a Rate Analysis run that read what the run before it read
RateRepeat ==
  (/\ Bound(rate_hist)
   /\ Bound(rate_hist')
   /\ Val(rate_hist').maxima = Val(rate_hist).maxima
   /\ Val(rate_hist').minima = Val(rate_hist).minima)
  => /\ Val(rate_hist').extrema = Val(rate_hist).extrema
     /\ Val(rate_hist').out = Val(rate_hist).out

\* C7: a Detect peaks run on the table and thresholds of the run before it
\* leaves the same maxima and minima, and a Rate Analysis run on the maxima
\* and minima of the run before it ends the same way with the same table.
C7_Repeatable == [][DetectRepeat /\ RateRepeat]_vars

C7_Witness ==
  /\ pc = "idle"
  /\ Bound(det_in)
  /\ Val(det_in).again
  /\ Bound(rate_hist)
  /\ Val(rate_hist).again
  /\ Val(rate_hist).maxima = Val(maxima)
  /\ Val(rate_hist).minima = Val(minima)
  /\ Val(rate_hist).out.exc = "none"
  /\ Len(Val(Val(rate_hist).extrema)) >= 2

\* a run of the parse cell or of the rename cell with nothing uploaded
C8_Step ==
  /\ (filepicker_data = <<>> /\ ParseCell) =>
       (out' = Outcome("IndexError caught", 126) /\ ~Bound(raw') /\ ~Bound(df'))
  /\ (filepicker_data = <<>> /\ RenameCell) =>
       (out' = Outcome("NameError caught", 153) /\ ~Bound(raw') /\ ~Bound(df'))

\* C8: with no file uploaded, the parse cell ends with its IndexError caught
\* and raw still unbound, and the rename cell ends with its NameError caught
\* and df still unbound.
C8_Prompts == [][C8_Step]_vars

C8_Witness ==
  /\ filepicker_data = <<>>
  /\ out = Outcome("NameError caught", 153)
  /\ ~Bound(raw)
  /\ ~Bound(df)

\* C9 as stated: every comparison of the loop reads the rows at positions i
\* and i+1 of the table as shortened so far.
C9_Positional ==
  (pc = "loop" /\ LoopCond(i, imax)) =>
    /\ Len(Val(extrema)) >= i + 2
    /\ Val(extrema)[i + 1].label = i
    /\ Val(extrema)[i + 2].label = i + 1

\* C9 amended: the loop makes one left-to-right pass over the row labels of
\* the merged table; a deletion does not move the other rows' labels, so with
\* the counter at i the rows i and above are all still there, and a row below
\* i is there exactly when its tag differs from its successor's in the merged
\* table: every run is collapsed independently.
C9_LabelPass ==
  pc = "loop" =>
    /\ \A j \in 0..(imax - 1) :
         HasLabel(Val(extrema), j) <=> (j >= i \/ Merged[j + 1].type # Merged[j + 2].type)
    /\ \A k \in 1..Len(Val(extrema)) :
         Val(extrema)[k] = Merged[Val(extrema)[k].label + 1]

C9_Witness ==
  /\ pc = "loop"
  /\ LoopCond(i, imax)
  /\ i >= 2
  /\ ~HasLabel(Val(extrema), i - 1)
  /\ ~HasLabel(Val(extrema), i - 2)

\* C10: the loop runs max(n-1, 0) times for a merged table of n rows, and
\* every iteration finds both row labels i and i+1 in the table.
C10_LoopSafe ==
  /\ (pc = "loop" /\ LoopCond(i, imax)) =>
       (HasLabel(Val(extrema), i) /\ HasLabel(Val(extrema), i + 1))
  /\ pc = "loop" => (imax = Len(Merged) /\ i <= Max2(imax - 1, 0))
  /\ AfterCleanup => i = Max2(imax - 1, 0)
  /\ ~(out.exc = "KeyError" /\ out.line = 253)

C10_Witness ==
  /\ AfterCleanup
  /\ i = imax - 1
  /\ i >= 3
  /\ ~HasLabel(Val(extrema), 0)
  /\ ~HasLabel(Val(extrema), 1)

====
